---------------------------- MODULE Spec2Model ----------------------------
(***************************************************************************)
(* A model of check_jobs.py: the job watcher that polls two career         *)
(* searches, compares the top listing's identifier with the one kept in a  *)
(* state file, sends a Telegram message when it differs and then rewrites  *)
(* the state file.                                                         *)
(*                                                                         *)
(* Python strings are sequences of one-character strings.  A decoded JSON  *)
(* value is a record [kind, val]: val is the character sequence of a str,  *)
(* <<n>> of an int, <<b>> of a bool, <<>> of None, the element sequence of *)
(* a list and the sequence of [key, value] items (insertion order) of a    *)
(* dict.                                                                   *)
(***************************************************************************)
EXTENDS Naturals, Sequences, FiniteSets, TLC

\* ------------------------------------------------------------------------
\* Python values and the built-ins the script uses
\* ------------------------------------------------------------------------

PyNone == [kind |-> "null", val |-> <<>>]
PyStrV(s) == [kind |-> "str", val |-> s]
PyInt(n) == [kind |-> "int", val |-> <<n>>]
PyBool(b) == [kind |-> "bool", val |-> <<b>>]
PyList(xs) == [kind |-> "list", val |-> xs]
PyDict(items) == [kind |-> "dict", val |-> items]
Item(k, v) == [key |-> k, value |-> v]

IsStr(v) == v.kind = "str"
IsList(v) == v.kind = "list"
IsDict(v) == v.kind = "dict"

\* bool(v): None, 0, False, "", [] and {} are falsy.
Truthy(v) ==
  CASE v.kind = "null" -> FALSE
    [] v.kind = "int" -> v.val[1] # 0
    [] v.kind = "bool" -> v.val[1]
    [] OTHER -> Len(v.val) > 0

\* a or b
PyOr(a, b) == IF Truthy(a) THEN a ELSE b

\* d.get(k): the value of key k, None when the key is absent.
DictGet(d, k) ==
  IF \E i \in 1..Len(d.val) : d.val[i].key = k
  THEN d.val[CHOOSE i \in 1..Len(d.val) : d.val[i].key = k].value
  ELSE PyNone

\* list(d.values())
DictValues(d) == [i \in 1..Len(d.val) |-> d.val[i].value]

IsSpace(c) == c \in {" ", "\t", "\n", "\r"}

RECURSIVE LStrip(_)
LStrip(s) == IF s # <<>> /\ IsSpace(Head(s)) THEN LStrip(Tail(s)) ELSE s

RECURSIVE RStrip(_)
RStrip(s) ==
  IF s # <<>> /\ IsSpace(s[Len(s)]) THEN RStrip(SubSeq(s, 1, Len(s) - 1)) ELSE s

\* s.strip()
Strip(s) == RStrip(LStrip(s))

\* sep.join(parts)
RECURSIVE Join(_, _)
Join(sep, parts) ==
  IF parts = <<>> THEN <<>>
  ELSE IF Len(parts) = 1 THEN parts[1]
  ELSE parts[1] \o sep \o Join(sep, Tail(parts))

CommaSpace == <<",", " ">>

Digits == <<"0", "1", "2", "3", "4", "5", "6", "7", "8", "9">>

\* str(n) of a non-negative int
RECURSIVE IntStr(_)
IntStr(n) == IF n < 10 THEN <<Digits[n + 1]>> ELSE IntStr(n \div 10) \o <<Digits[(n % 10) + 1]>>

RECURSIVE PyRepr(_)
\* repr(v), which str() uses for the elements of a list and a dict
ReprSeq(xs) == [i \in 1..Len(xs) |-> PyRepr(xs[i])]
ReprItems(items) ==
  [i \in 1..Len(items) |->
     <<"'">> \o items[i].key \o <<"'", ":", " ">> \o PyRepr(items[i].value)]
PyRepr(v) ==
  CASE v.kind = "null" -> <<"N", "o", "n", "e">>
    [] v.kind = "int" -> IntStr(v.val[1])
    [] v.kind = "bool" ->
         IF v.val[1] THEN <<"T", "r", "u", "e">> ELSE <<"F", "a", "l", "s", "e">>
    [] v.kind = "str" -> <<"'">> \o v.val \o <<"'">>
    [] v.kind = "list" -> <<"[">> \o Join(CommaSpace, ReprSeq(v.val)) \o <<"]">>
    [] OTHER -> <<"{">> \o Join(CommaSpace, ReprItems(v.val)) \o <<"}">>

\* str(v)
PyStr(v) == IF IsStr(v) THEN v.val ELSE PyRepr(v)

\* ------------------------------------------------------------------------
\* json.dumps(job, sort_keys=True) and hashlib.md5(...).hexdigest()
\* ------------------------------------------------------------------------

\* The characters of the model in code-point order.
Alphabet ==
  <<"\t", "\n", "\r", " ", "\"", "'", ",", "0", "1", "2", "3", "4", "5", "6", "7",
    "8", "9", ":", "A", "B", "C", "D", "E", "F", "G", "H", "I", "J", "K", "L", "M",
    "N", "O", "P", "Q", "R", "S", "T", "U", "V", "W", "X", "Y", "Z", "[", "]", "_",
    "a", "b", "c", "d", "e", "f", "g", "h", "i", "j", "k", "l", "m", "n", "o", "p",
    "q", "r", "s", "t", "u", "v", "w", "x", "y", "z", "{", "}">>

CharCode(c) == CHOOSE i \in 1..Len(Alphabet) : Alphabet[i] = c

\* a < b on strings (lexicographic, as sort_keys orders the keys)
RECURSIVE StrLess(_, _)
StrLess(a, b) ==
  IF b = <<>> THEN FALSE
  ELSE IF a = <<>> THEN TRUE
  ELSE IF Head(a) = Head(b) THEN StrLess(Tail(a), Tail(b))
  ELSE CharCode(Head(a)) < CharCode(Head(b))

\* sorted(d.items()) by key
RECURSIVE SortItems(_)
SortItems(items) ==
  IF items = <<>> THEN <<>>
  ELSE LET m == CHOOSE i \in 1..Len(items) :
                  \A j \in 1..Len(items) : j = i \/ StrLess(items[i].key, items[j].key)
           rest == [j \in 1..(Len(items) - 1) |-> IF j < m THEN items[j] ELSE items[j + 1]]
       IN <<items[m]>> \o SortItems(rest)

RECURSIVE JsonDumps(_)
DumpSeq(xs) == [i \in 1..Len(xs) |-> JsonDumps(xs[i])]
DumpItems(items) ==
  [i \in 1..Len(items) |->
     <<"\"">> \o items[i].key \o <<"\"", ":", " ">> \o JsonDumps(items[i].value)]
JsonDumps(v) ==
  CASE v.kind = "null" -> <<"n", "u", "l", "l">>
    [] v.kind = "int" -> IntStr(v.val[1])
    [] v.kind = "bool" ->
         IF v.val[1] THEN <<"t", "r", "u", "e">> ELSE <<"f", "a", "l", "s", "e">>
    [] v.kind = "str" -> <<"\"">> \o v.val \o <<"\"">>
    [] v.kind = "list" -> <<"[">> \o Join(CommaSpace, DumpSeq(v.val)) \o <<"]">>
    [] OTHER -> <<"{">> \o Join(CommaSpace, DumpItems(SortItems(v.val))) \o <<"}">>

HexDigits ==
  <<"0", "1", "2", "3", "4", "5", "6", "7", "8", "9", "a", "b", "c", "d", "e", "f">>

\* The length of an MD5 hexdigest.
HexDigestLen == 32

\* The characters lo..hi of the text folded into a number: each character
\* counts with its position, and the halves of a longer stretch are added.
RECURSIVE Mix(_, _, _)
Mix(s, lo, hi) ==
  IF hi < lo THEN 0
  ELSE IF lo = hi THEN (CharCode(s[lo]) * lo) % 65521
  ELSE LET m == (lo + hi) \div 2
       IN (Mix(s, lo, m) + Mix(s, m + 1, hi)) % 65521

\* The hexadecimal digits lo..hi of the digest of x: every run of four
\* digits spells x, shifted by the number of the run.
RECURSIVE Squeeze(_, _, _)
Squeeze(x, lo, hi) ==
  IF hi < lo THEN <<>>
  ELSE IF lo = hi
    THEN <<HexDigits[(((x \div (16 ^ ((lo - 1) % 4))) + ((lo - 1) \div 4)) % 16) + 1]>>
  ELSE LET m == (lo + hi) \div 2
       IN Squeeze(x, lo, m) \o Squeeze(x, m + 1, hi)

\* hashlib.md5(s).hexdigest(): a deterministic digest of the text, HexDigestLen
\* hexadecimal digits long.  The mixing function stands for MD5's; what the
\* script relies on is that the digest is a function of the text alone.
Md5Hex(s) == Squeeze((5381 + Mix(s, 1, Len(s))) % 65521, 1, HexDigestLen)

\* ------------------------------------------------------------------------
\* find_jobs_list
\* ------------------------------------------------------------------------

RECURSIVE find_jobs_list(_)
RECURSIVE FirstFound(_, _)
\* A variant of FirstFound: the loop returns what the first item gives.
FirstFound_ReturnFirst(xs, i) == IF i > Len(xs) THEN PyNone ELSE find_jobs_list(xs[i])

\* The loops "for item in node" / "for v in node.values()": the first result
\* that is not None, from position i on.
FirstFound(xs, i) ==
  IF i > Len(xs) THEN PyNone
  ELSE LET found == find_jobs_list(xs[i])
       IN IF found # PyNone THEN found ELSE FirstFound(xs, i + 1)

\* A variant of IsJobsList: every element must be a dict.
IsJobsList_AllDicts(node) ==
  Len(node.val) > 0 /\ \A i \in 1..Len(node.val) : IsDict(node.val[i])

\* The test of line 50: node and isinstance(node[0], dict)
IsJobsList(node) == Len(node.val) > 0 /\ IsDict(node.val[1])

find_jobs_list(node) ==
  IF IsList(node)
  THEN IF IsJobsList(node) THEN node ELSE FirstFound(node.val, 1)
  ELSE IF IsDict(node) THEN FirstFound(DictValues(node), 1)
  ELSE PyNone

\* ------------------------------------------------------------------------
\* fetch_top_job
\* ------------------------------------------------------------------------

K_name == <<"n", "a", "m", "e">>
K_title == <<"t", "i", "t", "l", "e">>
K_jobTitle == <<"j", "o", "b", "T", "i", "t", "l", "e">>
K_id == <<"i", "d">>
K_displayJobId == <<"d", "i", "s", "p", "l", "a", "y", "J", "o", "b", "I", "d">>
K_position_id == <<"p", "o", "s", "i", "t", "i", "o", "n", "_", "i", "d">>
K_positionId == <<"p", "o", "s", "i", "t", "i", "o", "n", "I", "d">>
K_locations == <<"l", "o", "c", "a", "t", "i", "o", "n", "s">>
K_standardizedLocations ==
  <<"s", "t", "a", "n", "d", "a", "r", "d", "i", "z", "e", "d",
    "L", "o", "c", "a", "t", "i", "o", "n", "s">>
K_applyUrl == <<"a", "p", "p", "l", "y", "U", "r", "l">>
K_detailsUrl == <<"d", "e", "t", "a", "i", "l", "s", "U", "r", "l">>
K_detailsURL == <<"d", "e", "t", "a", "i", "l", "s", "U", "R", "L">>

UnknownTitle == <<"U", "n", "k", "n", "o", "w", "n", " ", "t", "i", "t", "l", "e">>
UnknownLocation ==
  <<"U", "n", "k", "n", "o", "w", "n", " ", "l", "o", "c", "a", "t", "i", "o", "n">>

\* The tracked searches, in the order main checks them.
Searches == <<"IC2", "Software Engineer (US)">>
SearchSet == {Searches[i] : i \in 1..Len(Searches)}

\* SEARCH_URL_IC2 and SEARCH_URL_SWE, cut into the pieces the script
\* concatenates (a piece stands for its characters).
SEARCH_URL(label) ==
  <<"https://apply.careers.microsoft.com", "/api/pcsx/search", "?domain=microsoft.com",
    IF label = "IC2" THEN "&query=IC2" ELSE "&query=Software%20Engineer",
    "&location=United%20States", "&start=0", "&sort_by=timestamp",
    "&filter_include_remote=1">>

\* search_url.replace("/api/pcsx/search", "/careers")
CareersUrl(search_url) ==
  [i \in 1..Len(search_url) |->
     IF search_url[i] = "/api/pcsx/search" THEN "/careers" ELSE search_url[i]]

\* Lines 99-103
JobTitle(job) ==
  LET raw_name == PyOr(DictGet(job, K_name),
                       PyOr(DictGet(job, K_title), DictGet(job, K_jobTitle)))
  IN IF IsStr(raw_name) /\ Strip(raw_name.val) # <<>>
     THEN Strip(raw_name.val) ELSE UnknownTitle

\* Lines 106-113 and the str(job_id) of line 139
JobId(job) ==
  LET job_id == PyOr(DictGet(job, K_id),
                     PyOr(DictGet(job, K_displayJobId),
                          PyOr(DictGet(job, K_position_id), DictGet(job, K_positionId))))
  IN IF ~Truthy(job_id) THEN Md5Hex(JsonDumps(job)) ELSE PyStr(job_id)

\* [str(v) for v in first.values() if v]
TruthyStrs(vals) ==
  LET keep == SelectSeq(vals, Truthy) IN [i \in 1..Len(keep) |-> PyStr(keep[i])]

\* A variant of FormatLocation: the values of the first record are not
\* filtered.
FormatLocation_NoFilter(locs) ==
  IF IsList(locs) /\ Truthy(locs)
  THEN LET first == locs.val[1]
       IN IF IsDict(first)
          THEN LET parts == [i \in 1..Len(first.val) |-> PyStr(first.val[i].value)]
               IN IF parts # <<>> THEN Join(CommaSpace, parts) ELSE UnknownLocation
          ELSE Join(CommaSpace, [i \in 1..Len(locs.val) |-> PyStr(locs.val[i])])
  ELSE IF IsStr(locs) /\ Strip(locs.val) # <<>> THEN Strip(locs.val)
  ELSE UnknownLocation

\* Lines 118-128: the text for the resolved location value
FormatLocation(locs) ==
  IF IsList(locs) /\ Truthy(locs)
  THEN LET first == locs.val[1]
       IN IF IsDict(first)
          THEN LET parts == TruthyStrs(DictValues(first))
               IN IF parts # <<>> THEN Join(CommaSpace, parts) ELSE UnknownLocation
          ELSE Join(CommaSpace, [i \in 1..Len(locs.val) |-> PyStr(locs.val[i])])
  ELSE IF IsStr(locs) /\ Strip(locs.val) # <<>> THEN Strip(locs.val)
  ELSE UnknownLocation

\* Line 116
ResolveLocs(job) == PyOr(DictGet(job, K_locations), DictGet(job, K_standardizedLocations))

JobLocation(job) == FormatLocation(ResolveLocs(job))

\* Lines 131-136, formatted into the message by the f-string of line 138
JobUrl(job, search_url) ==
  LET u == PyOr(DictGet(job, K_applyUrl),
                PyOr(DictGet(job, K_detailsUrl), DictGet(job, K_detailsURL)))
  IN IF Truthy(u) THEN PyStr(u) ELSE CareersUrl(search_url)

\* What requests.get gives: a network failure (exception or timeout), or a
\* response with a status and a body that either decodes to data or does not.
NetError == [net |-> FALSE, status |-> 0, decodes |-> FALSE, data |-> PyNone]
HttpJson(status, data) == [net |-> TRUE, status |-> status, decodes |-> TRUE, data |-> data]
HttpBadBody(status) == [net |-> TRUE, status |-> status, decodes |-> FALSE, data |-> PyNone]

\* resp.raise_for_status() raises for the 4xx and 5xx statuses.
RaisesForStatus(status) == 400 <= status /\ status < 600

\* What fetch_top_job gives: kind "job" is the pair (job_id, desc), "none" is
\* (None, None) and "raise" is an exception leaving the function.  The
\* record also keeps the locals jobs, locs and location.
Raised ==
  [kind |-> "raise", job_id |-> <<>>, desc |-> <<>>, jobs |-> PyNone, locs |-> PyNone,
   location |-> <<>>]
NoJob ==
  [kind |-> "none", job_id |-> <<>>, desc |-> <<>>, jobs |-> PyNone, locs |-> PyNone,
   location |-> <<>>]

\* The extractor has not run yet.
Pending == [NoJob EXCEPT !.kind = "pending"]

\* Lines 85-139, from the decoded data on.  Line 87 reads data.keys(), which
\* raises AttributeError when data is no dict.
ExtractTopJob(data, search_url) ==
  LET jobs == find_jobs_list(data)
  IN IF ~Truthy(jobs)
     THEN IF IsDict(data) THEN NoJob ELSE Raised
     ELSE LET job == jobs.val[1]
          IN IF ~IsDict(job) THEN [NoJob EXCEPT !.jobs = jobs]
             ELSE [kind |-> "job",
                   job_id |-> JobId(job),
                   desc |-> JobTitle(job) \o <<"\n">> \o JobLocation(job) \o <<"\n">>
                              \o JobUrl(job, search_url),
                   jobs |-> jobs,
                   locs |-> ResolveLocs(job),
                   location |-> JobLocation(job)]

\* fetch_top_job(search_url, label) on the outcome resp of the request.
fetch_top_job(resp, search_url) ==
  IF ~resp.net THEN Raised
  ELSE IF RaisesForStatus(resp.status) THEN NoJob
  ELSE IF ~resp.decodes THEN NoJob
  ELSE ExtractTopJob(resp.data, search_url)

\* ------------------------------------------------------------------------
\* The state store and the notifier
\* ------------------------------------------------------------------------

\* A state file: absent, or present with its text.
Absent == [exists |-> FALSE, text |-> <<>>]
FileWith(text) == [exists |-> TRUE, text |-> text]

\* get_last_seen_id: the stripped text of the file, None when there is no file.
get_last_seen_id(file) == IF file.exists THEN PyStrV(Strip(file.text)) ELSE PyNone

\* set_last_seen_id: path.write_text(job_id)
set_last_seen_id(file, job_id) == FileWith(job_id)

\* send_telegram_message on the outcome tg of its POST: TRUE when it returns,
\* FALSE when it raises (requests.post raised, or raise_for_status did).
send_telegram_message(tg) == tg.net /\ ~RaisesForStatus(tg.status)

\* ------------------------------------------------------------------------
\* check_search
\* ------------------------------------------------------------------------

\* What one call of check_search does, given the state file, the outcome resp
\* of the careers request and the outcome tg of the Telegram request:
\*   kind, job_id   what fetch_top_job gave
\*   attempts       calls of send_telegram_message (0 or 1)
\*   sent           calls of it that returned (0 or 1)
\*   wrote          whether set_last_seen_id was called
\*   file           the state file afterwards
\*   ret            "normal" when check_search returns, "raised" when an
\*                  exception leaves it
Returned(r, file) ==
  [kind |-> r.kind, job_id |-> r.job_id, attempts |-> 0, sent |-> 0, wrote |-> FALSE,
   file |-> file, ret |-> "normal"]
NotifyRaised(r, file) ==
  [kind |-> r.kind, job_id |-> r.job_id, attempts |-> 1, sent |-> 0, wrote |-> FALSE,
   file |-> file, ret |-> "raised"]
Notified(r, file) ==
  [kind |-> r.kind, job_id |-> r.job_id, attempts |-> 1, sent |-> 1, wrote |-> TRUE,
   file |-> set_last_seen_id(file, r.job_id), ret |-> "normal"]

\* A variant of Seen: a missing state file counts as seen too.
Seen_OrNoState(last, job_id) == last = PyNone \/ last = PyStrV(job_id)

\* Line 208: last == job_id
Seen(last, job_id) == last = PyStrV(job_id)

\* A variant of FetchRaised: the exception is not caught.
FetchRaised_Uncaught(r, file) == [Returned(r, file) EXCEPT !.ret = "raised"]

\* Lines 199-201: an exception from fetch_top_job is caught and logged.
FetchRaised(r, file) == Returned(r, file)

\* A variant of NotifyFailed: the state file is written before the send.
NotifyFailed_StateWritten(r, file) ==
  [NotifyRaised(r, file) EXCEPT !.wrote = TRUE, !.file = set_last_seen_id(file, r.job_id)]

\* A variant of NotifyFailed: the exception is swallowed and the identifier
\* saved all the same.
NotifyFailed_Swallowed(r, file) ==
  [NotifyRaised(r, file) EXCEPT !.wrote = TRUE, !.ret = "normal",
                                !.file = set_last_seen_id(file, r.job_id)]

\* Line 213 raising: the exception leaves check_search before line 214.
NotifyFailed(r, file) == NotifyRaised(r, file)

check_search(file, resp, tg, search_url) ==
  LET r == fetch_top_job(resp, search_url)
  IN IF r.kind = "raise" THEN FetchRaised(r, file)
     ELSE IF r.kind = "none" \/ r.job_id = <<>> THEN Returned(r, file)
     ELSE IF Seen(get_last_seen_id(file), r.job_id) THEN Returned(r, file)
     ELSE IF ~send_telegram_message(tg) THEN NotifyFailed(r, file)
     ELSE Notified(r, file)

\* ------------------------------------------------------------------------
\* The environment: what the careers API and Telegram may answer
\* ------------------------------------------------------------------------

K_results == <<"r", "e", "s", "u", "l", "t", "s">>
K_city == <<"c", "i", "t", "y">>
K_state == <<"s", "t", "a", "t", "e">>

Redmond == PyStrV(<<"R", "e", "d", "m", "o", "n", "d">>)
Seattle == PyStrV(<<"S", "e", "a", "t", "t", "l", "e">>)
WA == PyStrV(<<"W", "A">>)

\* {"results": [{"id": "123", "title": "SWE II", "locations": [{"city": "Redmond"}]}]}
ExampleData ==
  PyDict(<<Item(K_results, PyList(<<
    PyDict(<<Item(K_id, PyStrV(<<"1", "2", "3">>)),
             Item(K_title, PyStrV(<<"S", "W", "E", " ", "I", "I">>)),
             Item(K_locations, PyList(<<PyDict(<<Item(K_city, Redmond)>>)>>))>>)>>))>>)

\* A top listing whose identifier ends in a blank: {"results": [{"id": "45 "}]}
PaddedIdData ==
  PyDict(<<Item(K_results, PyList(<<PyDict(<<Item(K_id, PyStrV(<<"4", "5", " ">>))>>)>>))>>)

\* A top listing with no identifier field: {"results": [{"name": "SWE", "id": 0}]}
NoIdData ==
  PyDict(<<Item(K_results, PyList(<<
    PyDict(<<Item(K_name, PyStrV(<<"S", "W", "E">>)), Item(K_id, PyInt(0))>>)>>))>>)

\* A top listing whose identifier is the empty string: {"results": [{"id": ""}]}
EmptyIdData ==
  PyDict(<<Item(K_results, PyList(<<PyDict(<<Item(K_id, PyStrV(<<>>))>>)>>))>>)

\* {"results": []}
EmptyData == PyDict(<<Item(K_results, PyList(<<>>))>>)

\* [1]: no listing, and not a dict
ListData == PyList(<<PyInt(1)>>)

\* The answers of the careers API to one request.
Upstream ==
  {NetError, HttpBadBody(200), HttpJson(500, ExampleData), HttpJson(300, ExampleData),
   HttpJson(200, EmptyData), HttpJson(200, ListData), HttpJson(200, ExampleData),
   HttpJson(200, PaddedIdData)}

\* The answers of Telegram to one sendMessage request.
Telegram ==
  {[net |-> FALSE, status |-> 0], [net |-> TRUE, status |-> 200],
   [net |-> TRUE, status |-> 403]}

\* How the git commands of commit_if_changed end.
GitOutcomes == {"ok", "config fails", "push fails"}

\* ------------------------------------------------------------------------
\* main: one run per trigger, the state files kept between runs
\* ------------------------------------------------------------------------

VARIABLES
  pc,        \* "idle", "search", "commit", "exit0" (main returned), "exit1" (an exception left main)
  idx,       \* the search main is at, an index of Searches
  files,     \* the state file of each search
  repo,      \* the state files as last committed
  raisedIn,  \* where the exception that ended the run came from
  wroteRun,  \* whether this run wrote a state file
  commitCalled, \* whether this run called commit_if_changed
  mem,       \* per search, what its latest check_search call saw
  log,       \* the latest check_search call of this run
  data,      \* the decoded response the extractor is given
  top        \* what the extractor made of it

vars == <<pc, idx, files, repo, raisedIn, wroteRun, commitCalled, mem, log, data, top>>
pipeVars == <<pc, idx, files, repo, raisedIn, wroteRun, commitCalled, mem, log>>
extractVars == <<data, top>>

NoId == [some |-> FALSE, id |-> <<>>]
SomeId(id) == [some |-> TRUE, id |-> id]

BlankMem == [called |-> FALSE, resp |-> NetError, clean |-> FALSE, pend |-> NoId]

BlankLog ==
  [called |-> FALSE, label |-> "", idx |-> 0, resp |-> NetError, kind |-> "none",
   job_id |-> <<>>, before |-> Absent, after |-> Absent, attempts |-> 0, sent |-> 0,
   wrote |-> FALSE, ret |-> "normal", retry |-> FALSE, same |-> FALSE]

Init ==
  /\ data = PyNone
  /\ top = Pending
  /\ pc = "idle"
  /\ idx = 1
  /\ files = [s \in SearchSet |-> Absent]
  /\ repo = [s \in SearchSet |-> Absent]
  /\ raisedIn = "none"
  /\ wroteRun = FALSE
  /\ commitCalled = FALSE
  /\ mem = [s \in SearchSet |-> BlankMem]
  /\ log = BlankLog

\* The scheduler starts the script.
StartRun ==
  /\ pc \in {"idle", "exit0", "exit1"}
  /\ pc' = "search"
  /\ idx' = 1
  /\ raisedIn' = "none"
  /\ wroteRun' = FALSE
  /\ commitCalled' = FALSE
  /\ log' = BlankLog
  /\ UNCHANGED <<files, repo, mem, extractVars>>

\* What the call leaves in mem for the next run of the same search.
NextMem(m, resp, c) ==
  [called |-> TRUE,
   resp |-> IF c.kind = "job" /\ c.ret = "normal" THEN resp ELSE NetError,
   clean |-> c.kind = "job" /\ c.ret = "normal",
   pend |-> IF c.attempts = 1 /\ c.sent = 0 THEN SomeId(c.job_id)
            ELSE IF c.kind = "job" THEN NoId
            ELSE m.pend]

\* main's call check_search(label, url, state_file) for the search at idx.
CheckSearch(resp, tg) ==
  /\ pc = "search"
  /\ LET s == Searches[idx]
         c == check_search(files[s], resp, tg, SEARCH_URL(s))
     IN /\ files' = [files EXCEPT ![s] = c.file]
        /\ log' = [called |-> TRUE, label |-> s, idx |-> idx, resp |-> resp,
                   kind |-> c.kind, job_id |-> c.job_id, before |-> files[s],
                   after |-> c.file, attempts |-> c.attempts, sent |-> c.sent,
                   wrote |-> c.wrote, ret |-> c.ret,
                   retry |-> c.kind = "job" /\ mem[s].pend = SomeId(c.job_id),
                   same |-> mem[s].called /\ mem[s].clean /\ mem[s].resp = resp]
        /\ mem' = [mem EXCEPT ![s] = NextMem(mem[s], resp, c)]
        /\ wroteRun' = (wroteRun \/ c.wrote)
        /\ IF c.ret = "raised"
           THEN /\ pc' = "exit1"
                /\ raisedIn' = s
                /\ idx' = idx
           ELSE /\ pc' = IF idx = Len(Searches) THEN "commit" ELSE "search"
                /\ idx' = IF idx = Len(Searches) THEN idx ELSE idx + 1
                /\ raisedIn' = raisedIn
  /\ UNCHANGED <<repo, commitCalled, extractVars>>

\* main's call commit_if_changed(): nothing to do when git status is empty
\* or no state file exists, else add, commit and push the state files.  A
\* failing git command raises (check=True).
CommitIfChanged(git) ==
  /\ pc = "commit"
  /\ commitCalled' = TRUE
  /\ IF git = "config fails"
     THEN pc' = "exit1" /\ raisedIn' = "commit" /\ repo' = repo
     ELSE IF files = repo \/ \A s \in SearchSet : ~files[s].exists
     THEN pc' = "exit0" /\ raisedIn' = raisedIn /\ repo' = repo
     ELSE /\ repo' = files
          /\ pc' = IF git = "push fails" THEN "exit1" ELSE "exit0"
          /\ raisedIn' = IF git = "push fails" THEN "commit" ELSE raisedIn
  /\ UNCHANGED <<idx, files, wroteRun, mem, log, extractVars>>

Next ==
  \/ StartRun
  \/ \E resp \in Upstream, tg \in Telegram : CheckSearch(resp, tg)
  \/ \E git \in GitOutcomes : CommitIfChanged(git)

\* ------------------------------------------------------------------------
\* The extractor on bounded decoded responses
\* ------------------------------------------------------------------------

\* The most nodes (dicts, lists and scalars) of a generated response.
MaxNodes == 5
\* The most nodes of a generated location value.
MaxLocNodes == 3

\* The one-to-one sequences of n keys
KeySeqs(keys, n) ==
  {ks \in [1..n -> keys] : \A i, j \in 1..n : ks[i] = ks[j] => i = j}

\* <<KeySeqs(keys, 1), ..., KeySeqs(keys, n)>>
RECURSIVE KeySeqTable(_, _)
KeySeqTable(keys, n) ==
  IF n = 0 THEN <<>> ELSE Append(KeySeqTable(keys, n - 1), KeySeqs(keys, n))

\* The dict whose i-th item has key ks[i] and value f[i]
RECURSIVE KeyedItems(_, _)
KeyedItems(ks, f) ==
  IF f = <<>> THEN <<>> ELSE <<Item(Head(ks), Head(f))>> \o KeyedItems(Tail(ks), Tail(f))

\* The values with exactly n nodes, given the table of the smaller ones:
\* scalars from leaves, lists, and dicts with keys from keys.
TreesAt(leaves, keys, table, n) ==
  IF n = 1 THEN leaves \cup {PyList(<<>>), PyDict(<<>>)}
  ELSE LET keyed == KeySeqTable(keys, Cardinality(keys))
       IN {PyList(f) : f \in table[n - 1].forests}
            \cup UNION {{PyDict(KeyedItems(ks, f)) : ks \in keyed[Len(f)]} :
                          f \in {g \in table[n - 1].forests : Len(g) <= Len(keyed)}}

\* The table whose k-th entry, for k = 1, ..., n, holds the values with
\* exactly k nodes (trees) and the non-empty sequences of values with k
\* nodes in all (forests)
RECURSIVE TreeTable(_, _, _)
TreeTable(leaves, keys, n) ==
  IF n = 0 THEN <<>>
  ELSE LET prev == TreeTable(leaves, keys, n - 1)
           trees == TreesAt(leaves, keys, prev, n)
           forests ==
             {<<t>> : t \in trees}
               \cup UNION {{<<t>> \o f : t \in prev[k].trees, f \in prev[n - k].forests} :
                             k \in 1..(n - 1)}
       IN Append(prev, [trees |-> trees, forests |-> forests])

\* The values with at most n nodes, n >= 1
TreesUpTo(leaves, keys, n) ==
  LET table == TreeTable(leaves, keys, n - 1)
  IN TreesAt(leaves, keys, table, n) \cup UNION {table[k].trees : k \in 1..(n - 1)}

\* {"locations": [{"city": "Seattle", "state": "WA"}]} and the same with the
\* record itself as the location value
SeattleRecord == PyDict(<<Item(K_city, Seattle), Item(K_state, WA)>>)
ListedLocation == PyList(<<SeattleRecord>>)

LocValues(n) ==
  TreesUpTo({PyNone, PyInt(0), PyInt(7), PyStrV(<<>>), PyStrV(<<" ">>),
             PyStrV(<<" ", "a", " ">>)}, {<<"c">>, <<"s">>}, n)
    \cup {SeattleRecord, ListedLocation}

\* [{key: v}]: a response whose top listing has one field
ListingWith(key, v) == PyList(<<PyDict(<<Item(key, v)>>)>>)

\* The decoded responses the extractor is run on: the values of at most n
\* nodes, and listings whose location value has at most m nodes
Responses(n, m) ==
  TreesUpTo({PyInt(0), PyStrV(<<"a">>)}, {K_id, <<"x">>}, n)
    \cup {ListingWith(K_locations, v) : v \in LocValues(m)}
    \cup {ListingWith(K_standardizedLocations, v) : v \in LocValues(m)}
    \cup {ExampleData, PaddedIdData, NoIdData, EmptyIdData, EmptyData, ListData}

ExtractInit ==
  /\ data \in Responses(MaxNodes, MaxLocNodes)
  /\ top = Pending
  /\ pc = "idle"
  /\ idx = 1
  /\ files = [s \in SearchSet |-> Absent]
  /\ repo = [s \in SearchSet |-> Absent]
  /\ raisedIn = "none"
  /\ wroteRun = FALSE
  /\ commitCalled = FALSE
  /\ mem = [s \in SearchSet |-> BlankMem]
  /\ log = BlankLog

\* fetch_top_job from line 85 on, for the IC2 search
Extract ==
  /\ top = Pending
  /\ top' = ExtractTopJob(data, SEARCH_URL("IC2"))
  /\ UNCHANGED <<data, pipeVars>>

ExtractNext == Extract

Spec == Init /\ [][Next]_vars

SpecExtract == ExtractInit /\ [][ExtractNext]_vars

\* ------------------------------------------------------------------------
\* The orchestration claims, checked under Spec
\* ------------------------------------------------------------------------

\* C1: in every check_search call the state file is written exactly when
\* send_telegram_message returned in that call, the text written is exactly
\* the identifier resolved, and a failed send leaves the file as it was.
C1_WrittenIffSent ==
  log.called =>
    /\ log.wrote <=> (log.sent = 1)
    /\ log.sent = 1 => log.kind = "job" /\ log.attempts = 1
    /\ log.wrote => log.after = FileWith(log.job_id)
    /\ ~log.wrote => log.after = log.before

C1_Witness ==
  /\ log.called /\ log.wrote /\ log.sent = 1
  /\ log.before.exists /\ log.after # log.before

\* C2: no error of one search ends the run: an exception never leaves
\* check_search, and a run that has ended has processed every search.
C2_ErrorsStayInSearch ==
  /\ raisedIn \notin SearchSet
  /\ pc \in {"exit0", "exit1"} => idx = Len(Searches) /\ log.called /\ log.idx = idx

\* C3: when the notification for an identifier failed, the next
\* check_search call of that search that resolves the same identifier calls
\* send_telegram_message again.
C3_RetryAfterFailedNotify == log.called /\ log.retry => log.attempts = 1

C3_Witness == log.called /\ log.retry /\ log.attempts = 1 /\ log.before.exists

\* C4: a check_search call that gets the same response as the previous
\* call of its search, which resolved a listing and returned, notifies
\* nobody and leaves the state file as it is.
C4_Idempotent ==
  log.called /\ log.same => log.attempts = 0 /\ ~log.wrote /\ log.after = log.before

\* C5 as stated: with no state file and a listing resolved, check_search
\* sends one notification and returns with the identifier in the state file.
C5_FirstRunAlwaysNotifies ==
  log.called /\ ~log.before.exists /\ log.kind = "job" =>
    /\ log.sent = 1
    /\ log.ret = "normal"
    /\ log.after = FileWith(log.job_id)

\* C5 amended: with no state file and a listing resolved, check_search calls
\* send_telegram_message exactly once; when the call returns, check_search
\* returns with the identifier in the state file, and when it raises, the
\* exception leaves check_search and no state file is created.
C5_FirstRun ==
  log.called /\ ~log.before.exists /\ log.kind = "job" =>
    /\ log.attempts = 1
    /\ log.sent = 1 => log.ret = "normal" /\ log.after = FileWith(log.job_id)
    /\ log.sent = 0 => log.ret = "raised" /\ log.after = Absent

C5_Witness ==
  /\ log.called /\ ~log.before.exists /\ log.kind = "job"
  /\ log.sent = 1 /\ log.after = FileWith(log.job_id)

\* C6: a run that wrote a state file has called commit_if_changed by the
\* time it ends.
C6_CommitAfterWrite == pc \in {"exit0", "exit1"} /\ wroteRun => commitCalled

\* The responses claim C7 calls a failed fetch, with "non-2xx" as stated
FetchFailedAsStated(resp) ==
  \/ ~resp.net
  \/ resp.status < 200 \/ resp.status > 299
  \/ ~resp.decodes
  \/ find_jobs_list(resp.data) = PyNone

\* ... and with the statuses narrowed to 4xx and 5xx
FetchFailed(resp) ==
  \/ ~resp.net
  \/ (400 <= resp.status /\ resp.status <= 599)
  \/ ~resp.decodes
  \/ find_jobs_list(resp.data) = PyNone

\* After a call that returned, main is at the next search, or past the last.
MainGoesOn ==
  /\ raisedIn # log.label
  /\ \/ pc = "search" /\ idx = log.idx + 1
     \/ log.idx = Len(Searches) /\ (pc \in {"commit", "exit0"} \/ raisedIn = "commit")

\* C7 as stated: a network failure, a non-2xx status, an undecodable body or
\* a response with no listing sends nothing, leaves the state file alone,
\* returns, and main goes on.
C7_NonFatalAsStated ==
  log.called /\ FetchFailedAsStated(log.resp) =>
    /\ log.attempts = 0 /\ ~log.wrote /\ log.after = log.before
    /\ log.ret = "normal"
    /\ MainGoesOn

\* C7 amended: the same for a network failure, a 4xx or 5xx status, an
\* undecodable body or a response with no listing.
C7_NonFatal ==
  log.called /\ FetchFailed(log.resp) =>
    /\ log.attempts = 0 /\ ~log.wrote /\ log.after = log.before
    /\ log.ret = "normal"
    /\ MainGoesOn

C7_Witness ==
  /\ log.called /\ ~log.resp.net /\ log.before.exists
  /\ log.idx = 1 /\ pc = "search" /\ idx = 2

\* ------------------------------------------------------------------------
\* The extractor claims, checked under SpecExtract
\* ------------------------------------------------------------------------

RECURSIVE PreOrder(_)
RECURSIVE PreOrderAll(_)
\* The nodes of the values xs, each value's before the next one's
PreOrderAll(xs) == IF xs = <<>> THEN <<>> ELSE PreOrder(Head(xs)) \o PreOrderAll(Tail(xs))

\* The nodes of a value in depth-first order: the value, then the nodes of
\* its elements (of a list) or of its values (of a dict) in their order
PreOrder(v) ==
  <<v>> \o (IF IsList(v) THEN PreOrderAll(v.val)
            ELSE IF IsDict(v) THEN PreOrderAll([i \in 1..Len(v.val) |-> v.val[i].value])
            ELSE <<>>)

\* A non-empty sequence whose elements are all mappings
AllMappings(v) ==
  IsList(v) /\ v.val # <<>> /\ \A i \in 1..Len(v.val) : v.val[i].kind = "dict"

\* A non-empty sequence whose first element is a mapping
HeadMapping(v) == IsList(v) /\ v.val # <<>> /\ v.val[1].kind = "dict"

\* A sequence with a mapping among its elements
SomeMapping(v) == IsList(v) /\ \E i \in 1..Len(v.val) : v.val[i].kind = "dict"

\* The first node in depth-first order that satisfies P, None when none does
FirstNode(v, P(_)) ==
  LET nodes == PreOrder(v)
      hits == {i \in 1..Len(nodes) : P(nodes[i])}
  IN IF hits = {} THEN PyNone ELSE nodes[CHOOSE i \in hits : \A j \in hits : i <= j]

Extracted == top.kind # "pending"

C8_AnyRecordYieldsListing ==
  Extracted /\ (\E i \in 1..Len(PreOrder(data)) : SomeMapping(PreOrder(data)[i])) =>
    top.kind = "job" /\ top.job_id # <<>>

\* C8 amended: a response with a mapping as the first element of some
\* nested sequence always yields a listing with a non-empty identifier.
C8_HeadRecordYieldsListing ==
  Extracted /\ (\E i \in 1..Len(PreOrder(data)) : HeadMapping(PreOrder(data)[i])) =>
    top.kind = "job" /\ top.job_id # <<>>

\* A listing found below the top of the response, identified by the digest
\* of its record.
C8_Witness ==
  /\ Extracted /\ top.kind = "job" /\ top.jobs # data
  /\ Len(top.job_id) = HexDigestLen

\* parts joined with ", ", built from the right
RECURSIVE Glue(_)
Glue(parts) ==
  IF parts = <<>> THEN <<>>
  ELSE IF Len(parts) = 1 THEN parts[1]
  ELSE Glue(SubSeq(parts, 1, Len(parts) - 1)) \o <<",", " ">> \o parts[Len(parts)]

StrForms(vals) == [i \in 1..Len(vals) |-> PyStr(vals[i])]

IsScalar(v) == v.kind \in {"null", "int", "bool", "str"}

SeattleWA == <<"S", "e", "a", "t", "t", "l", "e", ",", " ", "W", "A">>

\* C9 as stated: a mapping gives its non-empty scalar values joined with
\* ", ", a collection the string forms of its elements joined, a non-empty
\* string itself, and an empty or absent location "Unknown location".
C9_LocationAsStated ==
  top.kind = "job" =>
    /\ IsDict(top.locs) /\ Truthy(top.locs) =>
         top.location =
           Glue(StrForms(SelectSeq(DictValues(top.locs), LAMBDA v : IsScalar(v) /\ Truthy(v))))
    /\ top.locs = SeattleRecord => top.location = SeattleWA
    /\ IsList(top.locs) /\ Truthy(top.locs) => top.location = Glue(StrForms(top.locs.val))
    /\ IsStr(top.locs) /\ Truthy(top.locs) => top.location = top.locs.val
    /\ ~Truthy(top.locs) => top.location = UnknownLocation

\* The text the amended claim gives a resolved location value
LocationText(locs) ==
  CASE HeadMapping(locs) ->
         LET vals == SelectSeq(DictValues(locs.val[1]), Truthy)
         IN IF vals = <<>> THEN UnknownLocation ELSE Glue(StrForms(vals))
    [] IsList(locs) /\ locs.val # <<>> /\ ~HeadMapping(locs) -> Glue(StrForms(locs.val))
    [] IsStr(locs) /\ (\E i \in 1..Len(locs.val) : ~IsSpace(locs.val[i])) -> Strip(locs.val)
    [] OTHER -> UnknownLocation

\* C9 amended: a non-empty collection whose first element is a mapping gives
\* the string forms of that mapping's truthy values joined with ", "
\* ("Unknown location" when it has none), so [{city: "Seattle", state: "WA"}]
\* gives "Seattle, WA"; any other non-empty collection gives the string forms
\* of its elements joined with ", "; a string that is not blank gives itself
\* stripped of surrounding whitespace; everything else (absent, empty, blank,
\* a bare mapping, another scalar) gives "Unknown location".
C9_LocationFormat ==
  top.kind = "job" =>
    /\ top.location = LocationText(top.locs)
    /\ top.locs = ListedLocation => top.location = SeattleWA

C9_Witness == top.kind = "job" /\ top.locs = ListedLocation /\ top.location = SeattleWA
====
